---- MODULE Spec2Model ----
(***************************************************************************)
(* Daily Diet API: the users and meals tables and the request handlers of  *)
(* src/src/routes/users.ts and src/src/routes/meals.ts.                    *)
(*                                                                         *)
(* A handler is cut at its awaited queries: every awaited knex query is    *)
(* one atomic step, and other requests may run between two steps of the    *)
(* same handler.  A handler with a single query is a single action.  A     *)
(* handler with several queries holds a slot of reqs between its first     *)
(* query and its last one.  last is the response sent by the latest step,  *)
(* NoResp when that step did not end its request.                          *)
(*                                                                         *)
(* Rows keep the columns that decide control flow: users (id, email,       *)
(* session_id), meals (id, user_id, isOnTheDiet, inDiet).  The other       *)
(* columns (name, description, address, weight, height) are payload only.  *)
(* Request bodies range over bodies the zod schemas accept.                *)
(***************************************************************************)
EXTENDS Integers, Sequences, FiniteSets, TLC

\* ---------------------------------------------------------------- bounds
MaxUsers == 2       \* users rows ever inserted
MaxMeals == 2       \* meals rows ever inserted
MaxTokens == 1      \* session tokens ever issued by randomUUID
NumEmails == 2      \* distinct email addresses clients send
NumSlots == 2       \* requests in flight between two of their queries
MaxInFlight == 1    \* the same, in the scenarios with every write handler
SummaryUsers == 1   \* users rows ever inserted, in the summary scenario

\* ------------------------------------------------------------- constants
None == 0           \* undefined: no row found, no value
NoCookie == 0       \* request.cookies.sessionId is undefined
SqlNull == -1       \* NULL in a column

Emails == 1..NumEmails
Slots == 1..NumSlots
ForeignToken == MaxTokens + 1   \* a cookie value the server never issued
InDietDefaults == {SqlNull, 0, 1}

VARIABLES
    users,          \* the users table, in insertion order
    meals,          \* the meals table, in insertion order
    nextUserId,     \* the next randomUUID() for users.id
    nextMealId,     \* the next randomUUID() for meals.id
    nextToken,      \* the next randomUUID() for a session token
    inDietDefault,  \* what meals.inDiet holds in a row whose insert did not set it
    slotsOpen,      \* how many requests the scenario lets be in flight at once
    usersCap,       \* how many users rows the scenario lets be inserted
    reqs,           \* the requests in flight, by slot
    last            \* the response the latest step sent, NoResp when it sent none

vars == <<users, meals, nextUserId, nextMealId, nextToken, inDietDefault,
          slotsOpen, usersCap, reqs, last>>

\* ------------------------------------------------------------ requests
Idle == [kind |-> "idle", pc |-> "idle", sid |-> NoCookie, userId |-> None,
         mealId |-> None, email |-> None, flag |-> FALSE, c1 |-> 0, c2 |-> 0]

NoResp == [kind |-> "none", sid |-> NoCookie, status |-> 0, has |-> "none",
           total |-> -1, inDiet |-> -1, offDiet |-> -1, best |-> -1,
           rows |-> <<>>, rep |-> FALSE]

\* A response with a status and an error or message body.
Reply(kind, status, has) ==
    [NoResp EXCEPT !.kind = kind, !.status = status, !.has = has]

\* A response with the session that asked, for the handlers whose responses
\* are compared with what that session owns.
ReplyTo(kind, sid, status, has) == [Reply(kind, status, has) EXCEPT !.sid = sid]

\* The cookies a client can send: none, a token the server issued, its own value.
Cookies == {NoCookie, ForeignToken} \cup (1..(nextToken - 1))

InFlight(kind) == Cardinality({i \in Slots : reqs[i].kind = kind})

\* The slot a request that arrives takes: the first idle one, while the
\* scenario lets another request be in flight.
FreeSlot(i) == /\ reqs[i] = Idle
               /\ \A j \in Slots : j < i => reqs[j] # Idle
               /\ Cardinality({j \in Slots : reqs[j] # Idle}) < slotsOpen

\* ---------------------------------------------------------------- queries
\* const [user] = await knex('users').where('session_id', sessionId).select('id')
UsersOfSession(sid) == SelectSeq(users, LAMBDA u : u.session_id = sid)

ResolveUser(sid) ==
    IF UsersOfSession(sid) = <<>> THEN None ELSE UsersOfSession(sid)[1].id

\* knex('meals').where('user_id', userId)
MealsOfUser(userId) == SelectSeq(meals, LAMBDA m : m.user_id = userId)

\* Empty tables, no request in flight.
Scenario(defaults, slots, cap) ==
    /\ users = <<>>
    /\ meals = <<>>
    /\ nextUserId = 1
    /\ nextMealId = 1
    /\ nextToken = 1
    /\ inDietDefault \in defaults
    /\ slotsOpen = slots
    /\ usersCap = cap
    /\ reqs = [i \in Slots |-> Idle]
    /\ last = NoResp

Init == Scenario(InDietDefaults, NumSlots, MaxUsers)


\* ------------------------------------------------------ GET /users/metrics
\* knex('meals').select(...).innerJoin('users', 'users.id', 'meals.user_id')
\*     .where('session_id', sessionId)
JoinedMeals(sid) ==
    SelectSeq(meals, LAMBDA m :
        \E k \in 1..Len(users) : users[k].id = m.user_id /\ users[k].session_id = sid)

\* for (const meal of meals) { if (meal.inDiet === 1) currentStreak++
\*   else { if (currentStreak > maxStreak) maxStreak = currentStreak; currentStreak = 0 } }
RECURSIVE StreakLoop(_, _, _, _)
StreakLoop(ms, k, currentStreak, maxStreak) ==
    IF k > Len(ms) THEN <<currentStreak, maxStreak>>
    ELSE IF ms[k].inDiet = 1
         THEN StreakLoop(ms, k + 1, currentStreak + 1, maxStreak)
         ELSE StreakLoop(ms, k + 1, 0,
                         IF currentStreak > maxStreak THEN currentStreak ELSE maxStreak)

\* if (currentStreak > maxStreak) maxStreak = currentStreak, after the loop
BestStreak(ms) ==
    LET r == StreakLoop(ms, 1, 0, 0)
    IN  IF r[1] > r[2] THEN r[1] ELSE r[2]

\* The handler without its meals.length === 0 return.
MetricsResponseNoEmptyCheck(sid) ==
    LET ms == JoinedMeals(sid)
    IN  [ReplyTo("GET /users/metrics", sid, 200, "metrics") EXCEPT
            !.total = Len(ms),
            !.inDiet = Len(SelectSeq(ms, LAMBDA m : m.inDiet = 1)),
            !.offDiet = Len(SelectSeq(ms, LAMBDA m : m.inDiet = 0)),
            !.best = BestStreak(ms)]

MetricsResponse(sid) ==
    LET ms == JoinedMeals(sid)
    IN  IF Len(ms) = 0
        THEN ReplyTo("GET /users/metrics", sid, 404, "message")
        ELSE [ReplyTo("GET /users/metrics", sid, 200, "metrics") EXCEPT
                 !.total = Len(ms),
                 !.inDiet = Len(SelectSeq(ms, LAMBDA m : m.inDiet = 1)),
                 !.offDiet = Len(SelectSeq(ms, LAMBDA m : m.inDiet = 0)),
                 !.best = BestStreak(ms)]

\* checkSessionIdExists: a request without the sessionId cookie is answered 401.
Unauthorized(kind) == Reply(kind, 401, "error")

\* The handler with its query ended by .del(), as the query of DELETE
\* /meals/:id is: the rows it answers from are gone afterwards.
GetUsersMetricsDeleting(sid) ==
    /\ last' = IF sid = NoCookie
               THEN Unauthorized("GET /users/metrics")
               ELSE [MetricsResponse(sid) EXCEPT
                        !.rep = (last.kind = "GET /users/metrics" /\ last.sid = sid)]
    /\ meals' = SelectSeq(meals, LAMBDA m :
                    ~\E k \in 1..Len(users) :
                        users[k].id = m.user_id /\ users[k].session_id = sid)
    /\ UNCHANGED <<users, nextUserId, nextMealId, nextToken, inDietDefault,
                   slotsOpen, usersCap, reqs>>

\* rep records that the response before this one answered the same request.
GetUsersMetrics(sid) ==
    /\ last' = IF sid = NoCookie
               THEN Unauthorized("GET /users/metrics")
               ELSE [MetricsResponse(sid) EXCEPT
                        !.rep = (last.kind = "GET /users/metrics" /\ last.sid = sid)]
    /\ UNCHANGED <<users, meals, nextUserId, nextMealId, nextToken, inDietDefault,
                   slotsOpen, usersCap, reqs>>

\* ------------------------------------------------------------ POST /users
EmailTaken(email) == \E k \in 1..Len(users) : users[k].email = email

\* First query: select the user with this email; 400 when there is one.
PostUsersCheck(sid, email) ==
    /\ IF EmailTaken(email)
       THEN /\ last' = Reply("POST /users", 400, "error")
            /\ UNCHANGED reqs
       ELSE /\ nextUserId + InFlight("POST /users") <= usersCap
            /\ sid = NoCookie =>
                 nextToken + Cardinality({i \in Slots : reqs[i].kind = "POST /users"
                                                         /\ reqs[i].sid = NoCookie})
                     <= MaxTokens
            /\ \E i \in Slots :
                 /\ FreeSlot(i)
                 /\ reqs' = [reqs EXCEPT ![i] = [Idle EXCEPT !.kind = "POST /users",
                                 !.pc = "insert", !.sid = sid, !.email = email]]
            /\ last' = NoResp
    /\ UNCHANGED <<users, meals, nextUserId, nextMealId, nextToken, inDietDefault, slotsOpen, usersCap>>

\* Second query: insert the row, under the request's cookie or a new token.
PostUsersInsert(i) ==
    /\ reqs[i].kind = "POST /users" /\ reqs[i].pc = "insert"
    /\ LET sessionId == IF reqs[i].sid = NoCookie THEN nextToken ELSE reqs[i].sid
       IN  /\ users' = Append(users, [id |-> nextUserId, email |-> reqs[i].email,
                                      session_id |-> sessionId])
           /\ nextToken' = IF reqs[i].sid = NoCookie THEN nextToken + 1 ELSE nextToken
    /\ nextUserId' = nextUserId + 1
    /\ reqs' = [reqs EXCEPT ![i] = Idle]
    /\ last' = Reply("POST /users", 201, "message")
    /\ UNCHANGED <<meals, nextMealId, inDietDefault, slotsOpen, usersCap>>

\* -------------------------------------------------------- PUT /users/:id
\* knex('users').where('session_id', sessionId).where('id', id).update({...})
UpdateUser(sid, id, email) ==
    [k \in 1..Len(users) |->
        IF users[k].session_id = sid /\ users[k].id = id
        THEN [users[k] EXCEPT !.email = email]
        ELSE users[k]]

UserMatches(sid, id) ==
    \E k \in 1..Len(users) : users[k].session_id = sid /\ users[k].id = id

PutUsers(sid, id, email) ==
    /\ IF sid = NoCookie
       THEN /\ last' = Unauthorized("PUT /users/:id")
            /\ UNCHANGED users
       ELSE /\ users' = UpdateUser(sid, id, email)
            /\ last' = IF UserMatches(sid, id)
                       THEN Reply("PUT /users/:id", 200, "message")
                       ELSE Reply("PUT /users/:id", 404, "message")
    /\ UNCHANGED <<meals, nextUserId, nextMealId, nextToken, inDietDefault, slotsOpen, usersCap, reqs>>

\* ----------------------------------------------------- DELETE /users/:id
\* knex('users').where('session_id', sessionId).where('id', id).del()
DeleteUser(sid, id) ==
    SelectSeq(users, LAMBDA u : ~(u.session_id = sid /\ u.id = id))

DeleteUsers(sid, id) ==
    /\ IF sid = NoCookie
       THEN /\ last' = Unauthorized("DELETE /users/:id")
            /\ UNCHANGED users
       ELSE /\ users' = DeleteUser(sid, id)
            /\ last' = IF UserMatches(sid, id)
                       THEN Reply("DELETE /users/:id", 200, "message")
                       ELSE Reply("DELETE /users/:id", 404, "message")
    /\ UNCHANGED <<meals, nextUserId, nextMealId, nextToken, inDietDefault, slotsOpen, usersCap, reqs>>

\* ----------------------------------------------------- GET /users/summary
\* First query: resolve the user of the session; 404 when there is none.
UsersSummaryResolve(sid) ==
    /\ IF sid = NoCookie
       THEN /\ last' = Unauthorized("GET /users/summary")
            /\ UNCHANGED reqs
       ELSE IF ResolveUser(sid) = None
       THEN /\ last' = ReplyTo("GET /users/summary", sid, 404, "error")
            /\ UNCHANGED reqs
       ELSE /\ \E i \in Slots :
                 /\ FreeSlot(i)
                 /\ reqs' = [reqs EXCEPT ![i] = [Idle EXCEPT
                                 !.kind = "GET /users/summary", !.pc = "count",
                                 !.sid = sid, !.userId = ResolveUser(sid)]]
            /\ last' = NoResp
    /\ UNCHANGED <<users, meals, nextUserId, nextMealId, nextToken, inDietDefault, slotsOpen, usersCap>>

\* Second query: knex('users').count('id as Total de usuarios')
UsersSummaryCount(i) ==
    /\ reqs[i].kind = "GET /users/summary" /\ reqs[i].pc = "count"
    /\ last' = [ReplyTo("GET /users/summary", reqs[i].sid, 200, "usersSummary") EXCEPT
                   !.total = Len(users)]
    /\ reqs' = [reqs EXCEPT ![i] = Idle]
    /\ UNCHANGED <<users, meals, nextUserId, nextMealId, nextToken, inDietDefault, slotsOpen, usersCap>>


\* ------------------------------------------------------------ /meals
\* The first query of every meals handler: resolve the user of the session.
\* A handler declared without its response parameter (GET /meals, GET
\* /meals/summary) throws on response.status(404), again in its catch block,
\* and the request ends 500; the others answer 404.
\* The handler without its return on a session that resolves to no user.
MealsResolveNoReturn(kind, sid, mealId, flag, notFound) ==
    /\ IF sid = NoCookie
       THEN /\ last' = Unauthorized(kind)
            /\ UNCHANGED reqs
       ELSE /\ \E i \in Slots :
                 /\ FreeSlot(i)
                 /\ reqs' = [reqs EXCEPT ![i] = [Idle EXCEPT
                                 !.kind = kind, !.pc = "query", !.sid = sid,
                                 !.userId = ResolveUser(sid),
                                 !.mealId = mealId, !.flag = flag]]
            /\ last' = NoResp
    /\ UNCHANGED <<users, meals, nextUserId, nextMealId, nextToken, inDietDefault,
                   slotsOpen, usersCap>>

MealsResolve(kind, sid, mealId, flag, notFound) ==
    /\ IF sid = NoCookie
       THEN /\ last' = Unauthorized(kind)
            /\ UNCHANGED reqs
       ELSE IF ResolveUser(sid) = None
       THEN /\ last' = ReplyTo(kind, sid, notFound, "error")
            /\ UNCHANGED reqs
       ELSE /\ \E i \in Slots :
                 /\ FreeSlot(i)
                 /\ reqs' = [reqs EXCEPT ![i] = [Idle EXCEPT
                                 !.kind = kind, !.pc = "query", !.sid = sid,
                                 !.userId = ResolveUser(sid),
                                 !.mealId = mealId, !.flag = flag]]
            /\ last' = NoResp
    /\ UNCHANGED <<users, meals, nextUserId, nextMealId, nextToken, inDietDefault, slotsOpen, usersCap>>

Finish(i, resp) ==
    /\ last' = resp
    /\ reqs' = [reqs EXCEPT ![i] = Idle]

MealIds == 1..MaxMeals

\* knex('meals').where('id', params.id).andWhere('user_id', userId)
MealMatches(mealId, userId) ==
    SelectSeq(meals, LAMBDA m : m.id = mealId /\ m.user_id = userId)

\* POST /meals
PostMealsResolve(sid, flag) ==
    /\ sid # NoCookie /\ ResolveUser(sid) # None
         => nextMealId + InFlight("POST /meals") <= MaxMeals
    /\ MealsResolve("POST /meals", sid, None, flag, 404)

\* knex('meals').insert({ id, user_id: userId, name, description, isOnTheDiet })
PostMealsInsert(i) ==
    /\ reqs[i].kind = "POST /meals" /\ reqs[i].pc = "query"
    /\ meals' = Append(meals, [id |-> nextMealId, user_id |-> reqs[i].userId,
                               isOnTheDiet |-> reqs[i].flag,
                               inDiet |-> inDietDefault])
    /\ nextMealId' = nextMealId + 1
    /\ Finish(i, Reply("POST /meals", 201, "message"))
    /\ UNCHANGED <<users, nextUserId, nextToken, inDietDefault, slotsOpen, usersCap>>

\* GET /meals
GetMealsResolve(sid) == MealsResolve("GET /meals", sid, None, FALSE, 500)

\* knex('meals').where('user_id', userId).select()
GetMealsSelect(i) ==
    /\ reqs[i].kind = "GET /meals" /\ reqs[i].pc = "query"
    /\ Finish(i, [ReplyTo("GET /meals", reqs[i].sid, 200, "meals") EXCEPT
                     !.rows = MealsOfUser(reqs[i].userId)])
    /\ UNCHANGED <<users, meals, nextUserId, nextMealId, nextToken, inDietDefault, slotsOpen, usersCap>>

\* GET /meals/:id
GetMealResolve(sid, mealId) == MealsResolve("GET /meals/:id", sid, mealId, FALSE, 404)

\* knex('meals').where('id', params.id).andWhere('user_id', userId).first()
GetMealSelect(i) ==
    /\ reqs[i].kind = "GET /meals/:id" /\ reqs[i].pc = "query"
    /\ LET found == MealMatches(reqs[i].mealId, reqs[i].userId)
       IN  Finish(i, IF found = <<>>
                     THEN ReplyTo("GET /meals/:id", reqs[i].sid, 404, "error")
                     ELSE [ReplyTo("GET /meals/:id", reqs[i].sid, 200, "meal") EXCEPT
                              !.rows = <<found[1]>>])
    /\ UNCHANGED <<users, meals, nextUserId, nextMealId, nextToken, inDietDefault, slotsOpen, usersCap>>

\* DELETE /meals/:id
DeleteMealResolve(sid, mealId) ==
    MealsResolve("DELETE /meals/:id", sid, mealId, FALSE, 404)

\* knex('meals').where('id', params.id).andWhere('user_id', userId).first().delete()
\* The query without its .andWhere('user_id', userId).
DeleteMealOfAnyUser(mealId, userId) ==
    SelectSeq(meals, LAMBDA m : m.id # mealId)

DeleteMeal(mealId, userId) ==
    SelectSeq(meals, LAMBDA m : ~(m.id = mealId /\ m.user_id = userId))

DeleteMealDelete(i) ==
    /\ reqs[i].kind = "DELETE /meals/:id" /\ reqs[i].pc = "query"
    /\ meals' = DeleteMeal(reqs[i].mealId, reqs[i].userId)
    /\ Finish(i, IF Len(meals') = Len(meals)
                 THEN ReplyTo("DELETE /meals/:id", reqs[i].sid, 401, "error")
                 ELSE ReplyTo("DELETE /meals/:id", reqs[i].sid, 202, "message"))
    /\ UNCHANGED <<users, nextUserId, nextMealId, nextToken, inDietDefault, slotsOpen, usersCap>>

\* PUT /meals/:id
PutMealResolve(sid, mealId, flag) ==
    MealsResolve("PUT /meals/:id", sid, mealId, flag, 404)

\* knex('meals').where('id', params.id).andWhere('user_id', userId).first()
\*     .update({ name, description, isOnTheDiet })
UpdateMeal(mealId, userId, flag) ==
    [k \in 1..Len(meals) |->
        IF meals[k].id = mealId /\ meals[k].user_id = userId
        THEN [meals[k] EXCEPT !.isOnTheDiet = flag]
        ELSE meals[k]]

PutMealUpdate(i) ==
    /\ reqs[i].kind = "PUT /meals/:id" /\ reqs[i].pc = "query"
    /\ meals' = UpdateMeal(reqs[i].mealId, reqs[i].userId, reqs[i].flag)
    /\ Finish(i, IF MealMatches(reqs[i].mealId, reqs[i].userId) = <<>>
                 THEN ReplyTo("PUT /meals/:id", reqs[i].sid, 401, "error")
                 ELSE ReplyTo("PUT /meals/:id", reqs[i].sid, 202, "message"))
    /\ UNCHANGED <<users, nextUserId, nextMealId, nextToken, inDietDefault, slotsOpen, usersCap>>

\* GET /meals/summary
MealsSummaryResolve(sid) == MealsResolve("GET /meals/summary", sid, None, FALSE, 500)

\* knex('meals').count('id', ...).where('user_id', userId)
\* and the same with .where('isOnTheDiet', flag)
CountMeals(userId) == Len(MealsOfUser(userId))

CountMealsWhere(userId, flag) ==
    Len(SelectSeq(meals, LAMBDA m : m.isOnTheDiet = flag /\ m.user_id = userId))

MealsSummaryCount(i) ==
    /\ reqs[i].kind = "GET /meals/summary" /\ reqs[i].pc = "query"
    /\ reqs' = [reqs EXCEPT ![i].pc = "refDieta", ![i].c1 = CountMeals(reqs[i].userId)]
    /\ last' = NoResp
    /\ UNCHANGED <<users, meals, nextUserId, nextMealId, nextToken, inDietDefault, slotsOpen, usersCap>>

MealsSummaryRefDieta(i) ==
    /\ reqs[i].kind = "GET /meals/summary" /\ reqs[i].pc = "refDieta"
    /\ reqs' = [reqs EXCEPT ![i].pc = "refForaDieta",
                            ![i].c2 = CountMealsWhere(reqs[i].userId, TRUE)]
    /\ last' = NoResp
    /\ UNCHANGED <<users, meals, nextUserId, nextMealId, nextToken, inDietDefault, slotsOpen, usersCap>>

MealsSummaryRefForaDieta(i) ==
    /\ reqs[i].kind = "GET /meals/summary" /\ reqs[i].pc = "refForaDieta"
    /\ Finish(i, [ReplyTo("GET /meals/summary", reqs[i].sid, 200, "summary") EXCEPT
                     !.total = reqs[i].c1,
                     !.inDiet = reqs[i].c2,
                     !.offDiet = CountMealsWhere(reqs[i].userId, FALSE)])
    /\ UNCHANGED <<users, meals, nextUserId, nextMealId, nextToken, inDietDefault, slotsOpen, usersCap>>

\* ------------------------------------------------------------------ Next
Next ==
    \/ \E sid \in Cookies, email \in Emails : PostUsersCheck(sid, email)
    \/ \E i \in Slots : PostUsersInsert(i)
    \/ \E sid \in Cookies, id \in 1..MaxUsers, email \in Emails : PutUsers(sid, id, email)
    \/ \E sid \in Cookies, id \in 1..MaxUsers : DeleteUsers(sid, id)
    \/ \E sid \in Cookies : GetUsersMetrics(sid)
    \/ \E sid \in Cookies : UsersSummaryResolve(sid)
    \/ \E i \in Slots : UsersSummaryCount(i)
    \/ \E sid \in Cookies, flag \in BOOLEAN : PostMealsResolve(sid, flag)
    \/ \E i \in Slots : PostMealsInsert(i)
    \/ \E sid \in Cookies : GetMealsResolve(sid)
    \/ \E i \in Slots : GetMealsSelect(i)
    \/ \E sid \in Cookies, mealId \in MealIds : GetMealResolve(sid, mealId)
    \/ \E i \in Slots : GetMealSelect(i)
    \/ \E sid \in Cookies, mealId \in MealIds : DeleteMealResolve(sid, mealId)
    \/ \E i \in Slots : DeleteMealDelete(i)
    \/ \E sid \in Cookies, mealId \in MealIds, flag \in BOOLEAN :
           PutMealResolve(sid, mealId, flag)
    \/ \E i \in Slots : PutMealUpdate(i)
    \/ \E sid \in Cookies : MealsSummaryResolve(sid)
    \/ \E i \in Slots : MealsSummaryCount(i)
    \/ \E i \in Slots : MealsSummaryRefDieta(i)
    \/ \E i \in Slots : MealsSummaryRefForaDieta(i)

\* Every handler, any interleaving.
Spec == Init /\ [][Next]_vars

\* The scenarios that are checked.  Each takes the write handlers that shape
\* the tables its claims are about and the read handlers those claims name:
\* a read handler changes no table, so leaving one out leaves the reachable
\* tables as they are.  PUT /users/:id changes the email column only, which
\* no meals handler reads.  meals.inDiet is read by GET /users/metrics only.

\* The users handlers alone, any interleaving.
NextUsers ==
    \/ \E sid \in Cookies, email \in Emails : PostUsersCheck(sid, email)
    \/ \E i \in Slots : PostUsersInsert(i)
    \/ \E sid \in Cookies, id \in 1..MaxUsers, email \in Emails : PutUsers(sid, id, email)
    \/ \E sid \in Cookies, id \in 1..MaxUsers : DeleteUsers(sid, id)

SpecUsers == Scenario({SqlNull}, NumSlots, MaxUsers) /\ [][NextUsers]_vars

\* The users handlers and POST /meals, any interleaving.
NextOwnership ==
    \/ \E sid \in Cookies, email \in Emails : PostUsersCheck(sid, email)
    \/ \E i \in Slots : PostUsersInsert(i)
    \/ \E sid \in Cookies, id \in 1..MaxUsers, email \in Emails : PutUsers(sid, id, email)
    \/ \E sid \in Cookies, id \in 1..MaxUsers : DeleteUsers(sid, id)
    \/ \E sid \in Cookies, flag \in BOOLEAN : PostMealsResolve(sid, flag)
    \/ \E i \in Slots : PostMealsInsert(i)

SpecOwnership == Scenario({SqlNull}, NumSlots, MaxUsers) /\ [][NextOwnership]_vars

\* The handlers that insert and delete users and meals rows and update meals
\* rows, and GET /users/metrics.
NextMetrics ==
    \/ \E sid \in Cookies, email \in Emails : PostUsersCheck(sid, email)
    \/ \E i \in Slots : PostUsersInsert(i)
    \/ \E sid \in Cookies, id \in 1..MaxUsers : DeleteUsers(sid, id)
    \/ \E sid \in Cookies, flag \in BOOLEAN : PostMealsResolve(sid, flag)
    \/ \E i \in Slots : PostMealsInsert(i)
    \/ \E sid \in Cookies, mealId \in MealIds : DeleteMealResolve(sid, mealId)
    \/ \E i \in Slots : DeleteMealDelete(i)
    \/ \E sid \in Cookies, mealId \in MealIds, flag \in BOOLEAN :
           PutMealResolve(sid, mealId, flag)
    \/ \E i \in Slots : PutMealUpdate(i)
    \/ \E sid \in Cookies : GetUsersMetrics(sid)

SpecMetrics == Scenario(InDietDefaults, MaxInFlight, MaxUsers) /\ [][NextMetrics]_vars

\* The handlers that return, change or count meals, with users coming and going.
NextAccess ==
    \/ \E sid \in Cookies, email \in Emails : PostUsersCheck(sid, email)
    \/ \E i \in Slots : PostUsersInsert(i)
    \/ \E sid \in Cookies, id \in 1..MaxUsers : DeleteUsers(sid, id)
    \/ \E sid \in Cookies, flag \in BOOLEAN : PostMealsResolve(sid, flag)
    \/ \E i \in Slots : PostMealsInsert(i)
    \/ \E sid \in Cookies : GetMealsResolve(sid)
    \/ \E i \in Slots : GetMealsSelect(i)
    \/ \E sid \in Cookies, mealId \in MealIds : GetMealResolve(sid, mealId)
    \/ \E i \in Slots : GetMealSelect(i)
    \/ \E sid \in Cookies, mealId \in MealIds : DeleteMealResolve(sid, mealId)
    \/ \E i \in Slots : DeleteMealDelete(i)
    \/ \E sid \in Cookies, mealId \in MealIds, flag \in BOOLEAN :
           PutMealResolve(sid, mealId, flag)
    \/ \E i \in Slots : PutMealUpdate(i)
    \/ \E sid \in Cookies : GetUsersMetrics(sid)

SpecAccess == Scenario(InDietDefaults, MaxInFlight, MaxUsers) /\ [][NextAccess]_vars

\* The summary and metrics handlers, with users coming and going.
NextUnresolved ==
    \/ \E sid \in Cookies, email \in Emails : PostUsersCheck(sid, email)
    \/ \E i \in Slots : PostUsersInsert(i)
    \/ \E sid \in Cookies, id \in 1..MaxUsers : DeleteUsers(sid, id)
    \/ \E sid \in Cookies, flag \in BOOLEAN : PostMealsResolve(sid, flag)
    \/ \E i \in Slots : PostMealsInsert(i)
    \/ \E sid \in Cookies : GetUsersMetrics(sid)
    \/ \E sid \in Cookies : UsersSummaryResolve(sid)
    \/ \E i \in Slots : UsersSummaryCount(i)
    \/ \E sid \in Cookies : MealsSummaryResolve(sid)
    \/ \E i \in Slots : MealsSummaryCount(i)
    \/ \E i \in Slots : MealsSummaryRefDieta(i)
    \/ \E i \in Slots : MealsSummaryRefForaDieta(i)

SpecUnresolved ==
    Scenario(InDietDefaults, MaxInFlight, MaxUsers) /\ [][NextUnresolved]_vars

\* GET /meals/summary interleaved with the meal writes of the same user.
NextSummary ==
    \/ \E sid \in Cookies, email \in Emails : PostUsersCheck(sid, email)
    \/ \E i \in Slots : PostUsersInsert(i)
    \/ \E sid \in Cookies, flag \in BOOLEAN : PostMealsResolve(sid, flag)
    \/ \E i \in Slots : PostMealsInsert(i)
    \/ \E sid \in Cookies, mealId \in MealIds : DeleteMealResolve(sid, mealId)
    \/ \E i \in Slots : DeleteMealDelete(i)
    \/ \E sid \in Cookies, mealId \in MealIds, flag \in BOOLEAN :
           PutMealResolve(sid, mealId, flag)
    \/ \E i \in Slots : PutMealUpdate(i)
    \/ \E sid \in Cookies : MealsSummaryResolve(sid)
    \/ \E i \in Slots : MealsSummaryCount(i)
    \/ \E i \in Slots : MealsSummaryRefDieta(i)
    \/ \E i \in Slots : MealsSummaryRefForaDieta(i)

SpecSummary == Scenario({SqlNull}, NumSlots, SummaryUsers) /\ [][NextSummary]_vars

\* ------------------------------------------------------------------ claims
\* C3: no two rows of the users table have the same email.
C3_EmailsUnique ==
    \A j, k \in 1..Len(users) : j # k => users[j].email # users[k].email

\* C4: no two rows of the users table have the same session_id.
C4_SessionsUnique ==
    \A j, k \in 1..Len(users) : j # k => users[j].session_id # users[k].session_id

\* C6: the user_id of every meals row is the id of exactly one users row.
C6_MealsHaveOwner ==
    \A k \in 1..Len(meals) :
        Cardinality({j \in 1..Len(users) : users[j].id = meals[k].user_id}) = 1

\* The compliance flags POST /meals and PUT /meals/:id stored, in table order.
Flags(ms) == [k \in 1..Len(ms) |-> ms[k].isOnTheDiet]

\* The length of the longest contiguous run of TRUE in a sequence of flags.
LongestRun(fs) ==
    LET runs == {r \in (1..Len(fs)) \X (1..Len(fs)) :
                    r[1] <= r[2] /\ \A k \in r[1]..r[2] : fs[k]}
    IN  IF runs = {} THEN 0
        ELSE CHOOSE n \in 1..Len(fs) :
                 /\ \E r \in runs : r[2] - r[1] + 1 = n
                 /\ \A r \in runs : r[2] - r[1] + 1 <= n

\* The meals stored for the user the session of the latest response resolves to.
MealsOfRequester == MealsOfUser(ResolveUser(last.sid))

MetricsAnswered ==
    /\ last.kind = "GET /users/metrics"
    /\ ResolveUser(last.sid) # None

\* C1: when the requesting user has meals, GET /users/metrics returns as
\* bestSequenceOfMealsWithinTheDiet the length of the longest contiguous run
\* of meals whose compliance flag is true.
C1_BestSequenceIsLongestRun ==
    (MetricsAnswered /\ MealsOfRequester # <<>>)
        => /\ last.has = "metrics"
           /\ last.best = LongestRun(Flags(MealsOfRequester))

\* C2: a metrics object has totalNumberOfMeals = totalNumberOfMealsInTheDiet
\* + totalNumberOfMealsOffTheDiet.
C2_TotalIsInPlusOff ==
    (last.kind = "GET /users/metrics" /\ last.has = "metrics")
        => last.total = last.inDiet + last.offDiet


\* C7: for a user with no meal GET /users/metrics answers 404 with a message
\* and no metrics object; a metrics object is returned only for a user with
\* at least one meal.
C7_EmptyIsNoData ==
    /\ (MetricsAnswered /\ MealsOfRequester = <<>>)
           => (last.status = 404 /\ last.has = "message" /\ last.total = -1)
    /\ (last.kind = "GET /users/metrics" /\ last.has = "metrics")
           => (MetricsAnswered /\ MealsOfRequester # <<>> /\ last.total >= 1)

\* A user with no meal asked for metrics.
C7_Witness ==
    /\ MetricsAnswered
    /\ MealsOfRequester = <<>>
    /\ last.status = 404

\* A step of GET /users/metrics: it holds no slot and sends the response.
MetricsStep == reqs' = reqs /\ last'.kind = "GET /users/metrics"

\* C9: GET /users/metrics leaves the users and meals tables as they are, and
\* a metrics request right after one of the same session gets the same response.
C9_MetricsIsPureRead ==
    [][MetricsStep =>
          /\ users' = users
          /\ meals' = meals
          /\ last'.rep => [last' EXCEPT !.rep = last.rep] = last]_vars

\* Two metrics requests in a row from a user with meals.
C9_Witness ==
    /\ last.kind = "GET /users/metrics"
    /\ last.rep
    /\ last.has = "metrics"


SummaryKinds == {"GET /meals/summary", "GET /users/summary"}

\* C8: a summary or metrics request whose session resolves to no user ends
\* in a failure response with no count in it, and no summary request goes on
\* to its count queries without a resolved user.
C8_UnresolvedFailsFirst ==
    [][/\ \A i \in Slots :
              (reqs[i] = Idle /\ reqs'[i].kind \in SummaryKinds)
                  => /\ ResolveUser(reqs'[i].sid) # None
                     /\ reqs'[i].userId = ResolveUser(reqs'[i].sid)
       /\ (/\ reqs' = reqs
           /\ last'.kind \in SummaryKinds \cup {"GET /users/metrics"}
           /\ ResolveUser(last'.sid) = None)
              => /\ last'.status >= 400
                 /\ last'.has \in {"error", "message"}
                 /\ last'.total = -1 /\ last'.inDiet = -1
                 /\ last'.offDiet = -1 /\ last'.best = -1]_vars

\* GET /meals/summary arrived with a cookie that resolves to no user.
C8_Witness ==
    /\ last.kind = "GET /meals/summary"
    /\ last.sid # NoCookie
    /\ ResolveUser(last.sid) = None
    /\ last.status = 500

\* C10: every summary of GET /meals/summary has total registered = total
\* within the diet + total outside the diet.
C10_SummaryAddsUp ==
    (last.kind = "GET /meals/summary" /\ last.has = "summary")
        => last.total = last.inDiet + last.offDiet

MealKinds == {"POST /meals", "GET /meals", "GET /meals/:id",
              "PUT /meals/:id", "DELETE /meals/:id"}

\* The rows of a table, as a set.
Rows(t) == {t[k] : k \in 1..Len(t)}

\* C5: a meals handler acts for the user its session resolved to: it returns,
\* changes and deletes rows of that user only; PUT and DELETE on a meal of
\* another user answer 401 and leave the meals table as it is; GET
\* /users/metrics counts the meals of the user its session resolves to.
C5_OwnerOnly ==
    [][/\ \A i \in Slots :
              (reqs[i] = Idle /\ reqs'[i].kind \in MealKinds)
                  => /\ ResolveUser(reqs'[i].sid) # None
                     /\ reqs'[i].userId = ResolveUser(reqs'[i].sid)
       /\ \A i \in Slots :
              (reqs[i].kind \in MealKinds /\ reqs'[i] = Idle)
                  => /\ \A m \in Rows(last'.rows) : m.user_id = reqs[i].userId
                     /\ \A m \in Rows(meals) \ Rows(meals') : m.user_id = reqs[i].userId
                     /\ \A m \in Rows(meals') \ Rows(meals) : m.user_id = reqs[i].userId
                     /\ (/\ reqs[i].kind \in {"PUT /meals/:id", "DELETE /meals/:id"}
                         /\ \E m \in Rows(meals) :
                                m.id = reqs[i].mealId /\ m.user_id # reqs[i].userId)
                            => (meals' = meals /\ last'.status = 401)
       /\ (MetricsStep /\ last'.has = "metrics")
              => last'.total = Len(MealsOfUser(ResolveUser(last'.sid)))]_vars

\* A DELETE /meals/:id of a registered user answered 401 while every meal id
\* is in the table and every meal is of another registered user.
C5_Witness ==
    /\ last.kind = "DELETE /meals/:id"
    /\ last.status = 401
    /\ Len(meals) = MaxMeals
    /\ ResolveUser(last.sid) # None
    /\ \A m \in Rows(meals) :
           /\ m.user_id # ResolveUser(last.sid)
           /\ \E k \in 1..Len(users) : users[k].id = m.user_id

\* C11: a GET /users/metrics answered right after a GET /meals/summary of the
\* same session, whose user has at least one meal, returns the three counts
\* of that summary: total, in the diet and off the diet.
C11_MetricsCountsAreSummaryCounts ==
    [][(/\ MetricsStep
        /\ last.kind = "GET /meals/summary"
        /\ last.has = "summary"
        /\ last'.sid = last.sid
        /\ ResolveUser(last.sid) # None
        /\ MealsOfRequester # <<>>)
           => /\ last'.has = "metrics"
              /\ last'.total = last.total
              /\ last'.inDiet = last.inDiet
              /\ last'.offDiet = last.offDiet]_vars

====
